---------------------------- MODULE Spec2Model ----------------------------
(***************************************************************************)
(* Model of src/main.py: the launch sequencer (main), its confirmation     *)
(* wait (wait_for_button_press, Button), the relay-driven actuators        *)
(* (Relay, generate_fuel, transfer_fuel, fire_rocket, reset_system) and    *)
(* the interrupt-driven rotation detector (Encoder).                       *)
(*                                                                         *)
(* Time is kept in microseconds.  time.sleep(d) advances main's clock by   *)
(* d; every other statement takes no time.  The encoder interrupt may run  *)
(* between any two steps of the main context and at instants inside its    *)
(* sleeps (irq_now is the instant of the latest interrupt served).         *)
(*   time.ticks_us()  is (boot + t) % TicksPeriod at instant t (a wrapping *)
(*                    counter)                                             *)
(*   time.time()      is whole seconds (MicroPython), now \div UsPerSec    *)
(* The handler's time stamps are kept as the integer tick readings; its    *)
(* test on their float seconds is computed in doubles (DebounceElapsed).   *)
(* Output pins keep the level they are found at until they are written.    *)
(***************************************************************************)
EXTENDS Integers, Sequences, FiniteSets, TLC

\* ----------------------------------------------------------------------
\* Program constants (src/main.py)
\* ----------------------------------------------------------------------
BUBBLE_SLEEP == 5
TRANSFER_SLEEP == 5
FIRE_DURATION == 2
UsPerSec == 1000000
ButtonDebounceMs == 50
BlinkIntervalUs == 500000
EncoderDebounceUs == 1000
DefaultTimeout == 60
LoopDelayUs == 100000
PulsesPerRotation == 2
TicksPeriod == 1073741824

Buttons == {"green", "blue", "red"}
Relays == {"bubble", "transfer", "fire"}

\* ----------------------------------------------------------------------
\* Bounds of the exploration
\* ----------------------------------------------------------------------
MaxCycles == 2
MaxIdle == 1
MaxEdges == 4
PressWindowMs == 1000
MaxPresses == 3
MaxLiveEdges == 3
MaxTimeout == 2
MaxNowEnc == 5200
BootTick == 2000
BoundaryTick == 1001

\* tick counter values at which the encoder unit runs start: the counter's
\* origin, two values past the first debounce window (from BoundaryTick the
\* float test of line 86 accepts some edges that come exactly one debounce
\* window after the last accepted one and rejects others), and one shortly
\* before the counter wraps.
BootTicks == {0, BoundaryTick, BootTick, TicksPeriod - 2 * EncoderDebounceUs}
\* clock advances of the encoder unit runs: one inside and one beyond the
\* debounce window; two of the first make exactly one window
FineSteps == {500, 1500}
\* how long after the previous interrupt (or after the start of the sleep
\* main is in) an encoder edge arrives inside a sleep of main: at once,
\* 2 ms later, 1 s later
EdgeDelays == {0, 2000, 1000000}
Timeouts == (0 .. MaxTimeout) \cup {DefaultTimeout}
StartPhases == {0, 300000, 950000, 7000000}

VARIABLES
    \* Encoder fields
    pulse_count, activated, last_trigger_time,
    \* Pin levels
    relay, led,
    \* main context: position, current button of wait_for_button_press,
    \* call site, wait_for_button_press locals
    pc, btn, ctx, start_time, timeout,
    \* clocks: main's clock (the end of the sleep main is in), the instant
    \* up to which interrupts have been served (the start of that sleep or
    \* the latest edge since), and the tick counter's value at program start
    now, irq_now, boot,
    \* observations of the run (never read by the program)
    cycle, idle, trace, res, mark, seqEdges,
    \* (qedges, lastAccReal and recent are kept in the unit runs of the
    \* Encoder only)
    edges, qedges, accCount, nCompl, nTrue, lastAccReal, recent, ret, seqCompl,
    startReal, everActive, wret, presses,
    \* the samples read by the latest is_pressed call, its start, and the
    \* blinks of the current wait
    probe, probeAt, blinks,
    \* the time at which the ignition valve was last switched off
    fireOffAt,
    \* the encoder fields read by the latest is_activated call, and the tick
    \* readings of the edges that preempted it between its test and its reset
    snap, mid,
    \* the buttons whose LED has been written since construction
    written

encVars == <<pulse_count, activated, last_trigger_time>>
pinVars == <<relay, led>>
mainVars == <<pc, btn, ctx, start_time, timeout>>
clockVars == <<now, boot>>
seqObs == <<cycle, idle, trace, res, mark, seqEdges>>
edgeObs == <<edges, qedges, accCount, lastAccReal, recent, nCompl>>
pollObs == <<nTrue, ret, seqCompl>>
waitObs == <<startReal, everActive, wret>>
callObs == <<probe, probeAt, blinks>>
raceObs == <<snap, mid>>

\* the value of snap while no call of is_activated is being observed
NoSnap == [pulse_count |-> 0, activated |-> FALSE, last_trigger_time |-> 0]
vars == <<encVars, pinVars, mainVars, clockVars, seqObs, edgeObs, pollObs, waitObs,
          presses, callObs, fireOffAt, raceObs, irq_now, written>>

\* ----------------------------------------------------------------------
\* Clocks
\* ----------------------------------------------------------------------
\* time.ticks_us() read at instant t
ticks_us(t) == (boot + t) % TicksPeriod

time_time == now \div UsPerSec

\* the tick clock without the wrap: real microseconds since the counter's
\* origin at instant t
realAt(t) == boot + t


\* ----------------------------------------------------------------------
\* Encoder (src/main.py 65-98)
\* ----------------------------------------------------------------------

\* main is in its polling loop (lines 205-207, 243), no sequence running
InIdle == pc \in {"poll", "poll_reset", "idle_sleep"}

\* a sequence started by main is running
Running == ctx # "unit" /\ ~InIdle

\* line 86 with the debounce test removed
DebounceElapsed_always(current_time, last) == TRUE

\* Python floats are IEEE 754 doubles.  The values of the handler (seconds
\* below 2^20, no finer than 2^-80) are kept exactly as FixedBits binary
\* digits, most significant first, in limbs of LimbBits digits: FixedIntLimbs
\* limbs before the point and FixedFracLimbs after it.
MantissaBits == 53
LimbBits == 10
FixedIntLimbs == 2
FixedFracLimbs == 8
FixedBits == (FixedIntLimbs + FixedFracLimbs) * LimbBits

\* the binary digits of the limbs l
Digits(l) ==
    <<>> \o [i \in 1 .. Len(l) * LimbBits |->
                (l[(i - 1) \div LimbBits + 1]
                    \div 2 ^ (LimbBits - 1 - ((i - 1) % LimbBits))) % 2]

\* the value of the first k digits of limb q of digit string b
RECURSIVE LimbVal(_, _, _)
LimbVal(b, q, k) ==
    IF k = 0 THEN 0 ELSE 2 * LimbVal(b, q, k - 1) + b[(q - 1) * LimbBits + k]

\* the limbs of digit string b
Limbs(b) == <<>> \o [q \in 1 .. Len(b) \div LimbBits |-> LimbVal(b, q, LimbBits)]

\* the limbs of the natural number n < 2^(FixedIntLimbs * LimbBits)
IntLimbs(n) ==
    <<>> \o [q \in 1 .. FixedIntLimbs |->
                (n \div 2 ^ (LimbBits * (FixedIntLimbs - q))) % 2 ^ LimbBits]

\* the remainder of the long division r / 1_000_000 after q limbs behind
\* the point, r < 1_000_000
RECURSIVE FracRest(_, _)
FracRest(r, q) ==
    IF q = 0 THEN r ELSE (FracRest(r, q - 1) * 2 ^ LimbBits) % UsPerSec

\* the first n limbs behind the point of r / 1_000_000
FracLimbs(r, n) ==
    <<>> \o [q \in 1 .. n |-> (FracRest(r, q - 1) * 2 ^ LimbBits) \div UsPerSec]

\* the position of the leading 1 of digit string b, 0 when b is all zero
Lead(b) ==
    IF \E i \in 1 .. Len(b) : b[i] = 1
    THEN CHOOSE i \in 1 .. Len(b) : b[i] = 1 /\ \A j \in 1 .. i - 1 : b[j] = 0
    ELSE 0

\* b plus one unit of digit i: the digits up to i that have only ones
\* between them and i flip
AddOne(b, i) ==
    <<>> \o [j \in 1 .. Len(b) |->
                IF j <= i /\ \A k \in j + 1 .. i : b[k] = 1 THEN 1 - b[j] ELSE b[j]]

\* b, followed by a nonzero tail when rest holds, rounded to MantissaBits
\* significant digits, to nearest and ties to even
RoundToDouble(b, rest) ==
    LET p == Lead(b)
        low == p + MantissaBits - 1
        kept == <<>> \o [i \in 1 .. Len(b) |-> IF i <= low THEN b[i] ELSE 0]
        sticky == rest \/ \E i \in low + 2 .. Len(b) : b[i] = 1
    IN IF p = 0 \/ low >= Len(b)
       THEN b
       ELSE IF b[low + 1] = 1 /\ (sticky \/ b[low] = 1)
       THEN AddOne(kept, low)
       ELSE kept

\* line 85, ticks / 1_000_000 for an integer tick reading: the double
\* nearest to the quotient, as its FixedBits binary digits
ToDouble(ticks) ==
    LET r == ticks % UsPerSec
        b == Digits(IntLimbs(ticks \div UsPerSec) \o FracLimbs(r, FixedFracLimbs))
    IN RoundToDouble(b, FracRest(r, FixedFracLimbs) # 0)

\* x < y for sequences of digits or limbs of the same length
Less(x, y) ==
    \E i \in 1 .. Len(x) : x[i] < y[i] /\ \A j \in 1 .. i - 1 : x[j] = y[j]

\* the limbs of x - y, x >= y: limb q borrows when the limbs of x behind it
\* are less than those of y
SubLimbs(x, y) ==
    <<>> \o [q \in 1 .. Len(x) |->
                LET borrow ==
                        IF \E j \in q + 1 .. Len(x) :
                               x[j] < y[j] /\ \A k \in q + 1 .. j - 1 : x[k] = y[k]
                        THEN 1 ELSE 0
                IN (2 ^ LimbBits + x[q] - y[q] - borrow) % 2 ^ LimbBits]

\* the digits of x - y for digit strings x >= y
SubBits(x, y) == Digits(SubLimbs(Limbs(x), Limbs(y)))

\* line 86 in doubles, for readings with current_time >= last:
\* current_time / 1e6 - last / 1e6 > 0.001
FloatElapsed(current_time, last) ==
    LET x == ToDouble(current_time)
        y == ToDouble(last)
        d == RoundToDouble(SubBits(x, y), FALSE)
    IN Less(ToDouble(EncoderDebounceUs), d)

\* line 86: (current_time - self.last_trigger_time) > self.debounce_time,
\* on tick readings in microseconds whose float seconds the handler
\* compares.  The three roundings are off by less than 2^-40 s, so they
\* decide the test only when the readings are exactly one debounce window
\* apart; every other distance is decided by the distance itself.
DebounceElapsed(current_time, last) ==
    IF current_time - last = EncoderDebounceUs
    THEN FloatElapsed(current_time, last)
    ELSE (current_time - last) > EncoderDebounceUs

\* lines 89-91 without the assignment of the flag
irq_handler_noflag(pulses, act, last, current_time) ==
    IF DebounceElapsed(current_time, last)
    THEN IF pulses + 1 >= PulsesPerRotation
         THEN [pulse_count |-> 0, activated |-> act, last_trigger_time |-> current_time]
         ELSE [pulse_count |-> pulses + 1, activated |-> act,
               last_trigger_time |-> current_time]
    ELSE [pulse_count |-> pulses, activated |-> act, last_trigger_time |-> last]

\* the handler detached while a sequence runs: edges are then ignored
irq_handler_gated(pulses, act, last, current_time) ==
    IF Running
    THEN [pulse_count |-> pulses, activated |-> act, last_trigger_time |-> last]
    ELSE IF DebounceElapsed(current_time, last)
    THEN IF pulses + 1 >= PulsesPerRotation
         THEN [pulse_count |-> 0, activated |-> TRUE, last_trigger_time |-> current_time]
         ELSE [pulse_count |-> pulses + 1, activated |-> act,
               last_trigger_time |-> current_time]
    ELSE [pulse_count |-> pulses, activated |-> act, last_trigger_time |-> last]

\* Encoder._irq_handler on the fields (pulses, act, last) with time reading
\* current_time: the fields after the handler
irq_handler(pulses, act, last, current_time) ==
    IF DebounceElapsed(current_time, last)
    THEN IF pulses + 1 >= PulsesPerRotation
         THEN [pulse_count |-> 0, activated |-> TRUE, last_trigger_time |-> current_time]
         ELSE [pulse_count |-> pulses + 1, activated |-> act,
               last_trigger_time |-> current_time]
    ELSE [pulse_count |-> pulses, activated |-> act, last_trigger_time |-> last]

\* positions of the main context inside the polling loop of wait_for_button_press
WaitLoopPcs == {"is_pressed", "is_pressed_2", "blink_on", "blink_off", "wait_check"}

\* Bounds of the exploration: the inputs (button levels, encoder edges)
\* change inside a confirmation wait only during its first PressWindowMs
\* milliseconds, and a button line is found active at the first sample of
\* is_pressed at most MaxPresses times in a run
EnvActive == pc \notin WaitLoopPcs \/ (now - startReal) < PressWindowMs * 1000

\* the two latest results of is_activated since the latest edge
Push(s, r) == IF Len(s) = 2 THEN <<s[2], r>> ELSE Append(s, r)

\* the edges of s delivered less than one debounce window before time t
Within(s, t) ==
    LET close(e) == t - e.t < EncoderDebounceUs
    IN SelectSeq(s, close)

\* the instants at which the next encoder edge can arrive: when main takes
\* its next step (the end of the sleep it is in), or inside that sleep one
\* of EdgeDelays after the previous interrupt
EdgeInstants == {now} \cup {t \in {irq_now + d : d \in EdgeDelays} : t <= now}

\* A rising edge on the encoder pin: the registered handler runs (line 81).
\* The interrupt preempts main wherever it is, also inside a time.sleep:
\* main's clock `now` is the instant at which its current sleep ends, and
\* the handler reads the tick counter at the instant of the edge, between
\* the previous interrupt (or the start of the sleep) and `now`.
Edge ==
    /\ edges < MaxEdges
    /\ EnvActive
    /\ \E t \in EdgeInstants :
         /\ irq_now' = t
         /\ LET tick == ticks_us(t)
                real == realAt(t)
                r == irq_handler(pulse_count, activated, last_trigger_time, tick)
                accepted == r.last_trigger_time # last_trigger_time
                passes == DebounceElapsed(tick, last_trigger_time)
                qualifying == (real - lastAccReal) > EncoderDebounceUs
            IN /\ pulse_count' = r.pulse_count
               /\ activated' = r.activated
               /\ last_trigger_time' = r.last_trigger_time
               /\ edges' = edges + 1
               /\ qedges' = IF qualifying /\ ctx = "unit" THEN qedges + 1 ELSE qedges
               /\ accCount' = IF passes THEN accCount + 1 ELSE accCount
               /\ nCompl' = IF accepted /\ r.pulse_count = 0 THEN nCompl + 1 ELSE nCompl
               /\ seqCompl' = IF accepted /\ r.pulse_count = 0
                              THEN seqCompl + 1 ELSE seqCompl
               /\ lastAccReal' = IF accepted /\ ctx = "unit" THEN real ELSE lastAccReal
               /\ recent' = IF ctx = "unit"
                            THEN Append(Within(recent, real), [t |-> real, acc |-> accepted])
                            ELSE recent
               /\ mid' = IF pc = "poll_reset" THEN Append(mid, tick) ELSE <<>>
    /\ seqEdges' = IF Running THEN seqEdges + 1 ELSE seqEdges
    /\ ret' = <<>>
    /\ snap' = IF pc = "poll_reset" THEN snap ELSE NoSnap
    /\ UNCHANGED <<pinVars, mainVars, clockVars, cycle, idle, trace, res, mark,
                   nTrue, waitObs, presses,
                   callObs, fireOffAt, written>>

\* line 96 left out: the flag is not reset
is_activated_reset_keep ==
    /\ pc = "poll_reset"
    /\ irq_now' = now
    /\ UNCHANGED written
    /\ ctx = "unit" \/ cycle < MaxCycles
    /\ nTrue' = nTrue + 1
    /\ seqCompl' = 0
    /\ ret' = Push(ret, TRUE)
    /\ IF ctx = "unit"
       THEN pc' = "ready" /\ UNCHANGED seqObs
       ELSE /\ pc' = "gen_on"
            /\ cycle' = cycle + 1
            /\ idle' = 0
            /\ trace' = <<>>
            /\ res' = [b \in Buttons |-> "none"]
            /\ mark' = 0
            /\ seqEdges' = 0
    /\ UNCHANGED <<encVars, pinVars, btn, ctx, start_time, timeout, clockVars,
                   edgeObs, waitObs, presses,
                   callObs, fireOffAt, raceObs>>

\* Encoder.is_activated, line 95: the test of the flag.  A false flag returns
\* False to the caller: main goes on to line 243, a unit run is ready again.
is_activated_test ==
    /\ pc = "poll"
    /\ irq_now' = now
    /\ UNCHANGED written
    /\ IF activated
       THEN pc' = "poll_reset" /\ UNCHANGED ret
       ELSE /\ pc' = IF ctx = "unit" THEN "ready" ELSE "idle_sleep"
            /\ ret' = Push(ret, FALSE)
    /\ snap' = IF activated
               THEN [pulse_count |-> pulse_count, activated |-> activated,
                     last_trigger_time |-> last_trigger_time]
               ELSE NoSnap
    /\ mid' = <<>>
    /\ UNCHANGED <<encVars, pinVars, btn, ctx, start_time, timeout, clockVars,
                   seqObs, edgeObs, nTrue, seqCompl, waitObs, presses,
                   callObs, fireOffAt>>

\* Encoder.is_activated, lines 96-97: reset the flag, return True.  In main
\* (line 207) the sequence starts at line 208.
is_activated_reset ==
    /\ pc = "poll_reset"
    /\ irq_now' = now
    /\ UNCHANGED written
    /\ ctx = "unit" \/ cycle < MaxCycles
    /\ activated' = FALSE
    /\ nTrue' = nTrue + 1
    /\ seqCompl' = 0
    /\ ret' = Push(ret, TRUE)
    /\ IF ctx = "unit"
       THEN pc' = "ready" /\ UNCHANGED seqObs
       ELSE /\ pc' = "gen_on"
            /\ cycle' = cycle + 1
            /\ idle' = 0
            /\ trace' = <<>>
            /\ res' = [b \in Buttons |-> "none"]
            /\ mark' = 0
            /\ seqEdges' = 0
    /\ UNCHANGED <<pulse_count, last_trigger_time, pinVars, btn, ctx, start_time,
                   timeout, clockVars, edgeObs, waitObs, presses,
                   callObs, fireOffAt, raceObs>>

\* ----------------------------------------------------------------------
\* Unit runs of the Encoder: edges at any time, is_activated called at any time
\* ----------------------------------------------------------------------

\* a caller invokes encoder.is_activated()
call_is_activated ==
    /\ pc = "ready"
    /\ irq_now' = now
    /\ UNCHANGED written
    /\ pc' = "poll"
    /\ UNCHANGED <<encVars, pinVars, btn, ctx, start_time, timeout, clockVars,
                   seqObs, edgeObs, pollObs, waitObs, presses,
                   callObs, fireOffAt, raceObs>>

\* time passes between two events of a unit run: no sleep is pending, the
\* next edge comes at the new instant
Advance ==
    \E d \in FineSteps :
        /\ now + d <= MaxNowEnc
        /\ now' = now + d
        /\ irq_now' = now + d
        /\ UNCHANGED written
        /\ UNCHANGED <<encVars, pinVars, mainVars, boot, seqObs, edgeObs, pollObs,
                       waitObs, presses,
                       callObs, fireOffAt, raceObs>>

\* Button.__init__, lines 45-47: the level of the LED pin once the
\* constructor has run on a pin found at `level`; Pin(led_pin, Pin.OUT)
\* keeps the level and the constructor never writes it
Button_init(level) == level

\* a relay whose constructor leaves the pin as it finds it (no turn_off)
Relay_init_keep(level) == level

\* Relay.__init__, lines 110-111: the level of the pin once the constructor
\* has run on a pin found at `level`; Pin(relay_pin, Pin.OUT) keeps the
\* level, turn_off() then drives it low
Relay_init(level) == FALSE

\* Encoder.__init__ (lines 75-81), Relay.__init__ (line 111: turn_off), and
\* no observation made yet
InitFields ==
    /\ pulse_count = 0
    /\ activated = FALSE
    /\ last_trigger_time = 0
    /\ relay \in {[r \in Relays |-> Relay_init(pre[r])] : pre \in [Relays -> BOOLEAN]}
    /\ cycle = 0 /\ idle = 0 /\ trace = <<>> /\ mark = 0 /\ seqEdges = 0
    /\ res = [b \in Buttons |-> "none"]
    /\ edges = 0 /\ qedges = 0 /\ accCount = 0 /\ nCompl = 0 /\ nTrue = 0
    /\ lastAccReal = 0 /\ recent = <<>> /\ ret = <<>> /\ seqCompl = 0
    /\ startReal = 0 /\ everActive = FALSE /\ wret = "none" /\ presses = 0
    /\ probe = <<>> /\ probeAt = 0 /\ blinks = 0
    /\ fireOffAt = 0
    /\ snap = NoSnap
    /\ mid = <<>>
    /\ written = {}

\* an Encoder alone (no Button is constructed: the LED pins are left low)
InitEnc ==
    /\ InitFields
    /\ led = [b \in Buttons |-> FALSE]
    /\ pc = "ready" /\ btn = "none" /\ ctx = "unit"
    /\ start_time = 0 /\ timeout = DefaultTimeout
    /\ now = 0
    /\ irq_now = 0
    /\ boot \in BootTicks

NextEnc ==
    \/ Edge
    \/ Advance
    \/ call_is_activated
    \/ is_activated_test
    \/ is_activated_reset

SpecEnc == InitEnc /\ [][NextEnc]_vars

\* ----------------------------------------------------------------------
\* Relay (src/main.py 101-121) and the actuator steps (128-165)
\* ----------------------------------------------------------------------

\* Relay.turn_on / Relay.turn_off on relay r: the pin levels afterwards
turn_on(r) == [relay EXCEPT ![r] = TRUE]

turn_off(r) == [relay EXCEPT ![r] = FALSE]

\* the record of one relay call in the cycle's actuator trace
Logged(r, op) == Append(trace, <<r, op>>)

\* generate_fuel, lines 130-132: valve on, hold
generate_fuel_on ==
    /\ pc = "gen_on"
    /\ irq_now' = now
    /\ UNCHANGED written
    /\ relay' = turn_on("bubble")
    /\ trace' = Logged("bubble", "on")
    /\ now' = now + BUBBLE_SLEEP * UsPerSec
    /\ pc' = "gen_off"
    /\ UNCHANGED <<encVars, led, btn, ctx, start_time, timeout, boot,
                   cycle, idle, res, mark, seqEdges, edgeObs, pollObs, waitObs, presses,
                   callObs, fireOffAt, raceObs>>

\* generate_fuel, lines 133-134: the second call is turn_on again; main then
\* calls wait_for_button_press(green_button) (line 215)
generate_fuel_end ==
    /\ pc = "gen_off"
    /\ irq_now' = now
    /\ UNCHANGED written
    /\ relay' = turn_on("bubble")
    /\ trace' = Logged("bubble", "on")
    /\ pc' = "wait_start"
    /\ btn' = "green"
    /\ UNCHANGED <<encVars, led, ctx, start_time, timeout, clockVars,
                   cycle, idle, res, mark, seqEdges, edgeObs, pollObs, waitObs, presses,
                   callObs, fireOffAt, raceObs>>

\* transfer_fuel, lines 139-141: valve on, hold
transfer_fuel_on ==
    /\ pc = "transfer_on"
    /\ irq_now' = now
    /\ UNCHANGED written
    /\ relay' = turn_on("transfer")
    /\ trace' = Logged("transfer", "on")
    /\ now' = now + TRANSFER_SLEEP * UsPerSec
    /\ pc' = "transfer_off"
    /\ UNCHANGED <<encVars, led, btn, ctx, start_time, timeout, boot,
                   cycle, idle, res, mark, seqEdges, edgeObs, pollObs, waitObs, presses,
                   callObs, fireOffAt, raceObs>>

\* transfer_fuel, lines 142-143: valve off.  Called from reset_system (line
\* 163) the rocket is fired next (line 164); called from main (line 228) the
\* red confirmation follows (line 232).
transfer_fuel_off ==
    /\ pc = "transfer_off"
    /\ irq_now' = now
    /\ UNCHANGED written
    /\ relay' = turn_off("transfer")
    /\ trace' = Logged("transfer", "off")
    /\ IF ctx = "reset"
       THEN pc' = "fire_on" /\ btn' = btn
       ELSE pc' = "wait_start" /\ btn' = "red"
    /\ UNCHANGED <<encVars, led, ctx, start_time, timeout, clockVars,
                   cycle, idle, res, mark, seqEdges, edgeObs, pollObs, waitObs, presses,
                   callObs, fireOffAt, raceObs>>

\* fire_rocket, lines 148-150: valve on, hold
fire_rocket_on ==
    /\ pc = "fire_on"
    /\ irq_now' = now
    /\ UNCHANGED written
    /\ relay' = turn_on("fire")
    /\ trace' = Logged("fire", "on")
    /\ now' = now + FIRE_DURATION * UsPerSec
    /\ pc' = "fire_off"
    /\ UNCHANGED <<encVars, led, btn, ctx, start_time, timeout, boot,
                   cycle, idle, res, mark, seqEdges, edgeObs, pollObs, waitObs, presses,
                   callObs, fireOffAt, raceObs>>

\* fire_rocket followed by a cooldown sleep as long as the ignition hold
\* before main polls the encoder again
fire_rocket_off_cooldown ==
    /\ pc = "fire_off"
    /\ irq_now' = now
    /\ UNCHANGED written
    /\ relay' = turn_off("fire")
    /\ trace' = Logged("fire", "off")
    /\ pc' = IF ctx = "main" THEN "idle_sleep" ELSE "poll"
    /\ ctx' = "main"
    /\ btn' = "none"
    /\ fireOffAt' = now
    /\ now' = now + FIRE_DURATION * UsPerSec
    /\ UNCHANGED <<encVars, led, start_time, timeout, boot,
                   cycle, idle, res, mark, seqEdges, edgeObs, pollObs, waitObs, presses,
                   callObs, raceObs>>

\* fire_rocket, lines 151-152: valve off.  After the full sequence (line 238)
\* main falls through to the delay of line 243; on the abort paths (lines
\* 217-218, 224-225, 234-235) `continue` goes straight back to line 207.
fire_rocket_off ==
    /\ pc = "fire_off"
    /\ irq_now' = now
    /\ UNCHANGED written
    /\ relay' = turn_off("fire")
    /\ trace' = Logged("fire", "off")
    /\ pc' = IF ctx = "main" THEN "idle_sleep" ELSE "poll"
    /\ ctx' = "main"
    /\ btn' = "none"
    /\ fireOffAt' = now
    /\ UNCHANGED <<encVars, led, start_time, timeout, clockVars,
                   cycle, idle, res, mark, seqEdges, edgeObs, pollObs, waitObs, presses,
                   callObs, raceObs>>

\* main, line 243: the delay of the polling loop
main_sleep ==
    /\ pc = "idle_sleep"
    /\ irq_now' = now
    /\ UNCHANGED written
    /\ idle < MaxIdle
    /\ idle' = idle + 1
    /\ now' = now + LoopDelayUs
    /\ pc' = "poll"
    /\ UNCHANGED <<encVars, pinVars, btn, ctx, start_time, timeout, boot,
                   cycle, trace, res, mark, seqEdges, edgeObs, pollObs, waitObs, presses,
                   callObs, fireOffAt, raceObs>>

\* ----------------------------------------------------------------------
\* Button (35-62) and wait_for_button_press (168-184)
\* ----------------------------------------------------------------------

\* the levels the button pin can show at a read
Levels == IF EnvActive THEN BOOLEAN ELSE {FALSE}

\* line 179 comparing the clock itself, not the time elapsed since the start
TimedOut_absolute(t, start, limit) == t > limit

\* line 179: (time.time() - start_time) > timeout
TimedOut(t, start, limit) == (t - start) > limit

\* main without the blue confirmation: the transfer follows the green one
AfterConfirmed_skipblue(b) ==
    CASE b = "green" -> [pc |-> "transfer_on", btn |-> "none", ctx |-> "main"]
      [] b = "blue" -> [pc |-> "transfer_on", btn |-> "none", ctx |-> "main"]
      [] b = "red" -> [pc |-> "fire_on", btn |-> "none", ctx |-> "main"]

\* where main continues when wait_for_button_press(button b) returns True:
\* lines 222, 228, 238
AfterConfirmed(b) ==
    CASE b = "green" -> [pc |-> "wait_start", btn |-> "blue", ctx |-> "main"]
      [] b = "blue" -> [pc |-> "transfer_on", btn |-> "none", ctx |-> "main"]
      [] b = "red" -> [pc |-> "fire_on", btn |-> "none", ctx |-> "main"]

\* the abort of the red confirmation going back to the loop without firing
AfterTimeout_halt(b) ==
    CASE b \in {"green", "blue"} -> [pc |-> "transfer_on", btn |-> "none", ctx |-> "reset"]
      [] b = "red" -> [pc |-> "poll", btn |-> "none", ctx |-> "main"]

\* a timeout that is detected but does not leave the wait loop
AfterTimeout_stay(b) == [pc |-> "wait_check", btn |-> b, ctx |-> "main"]

\* where main continues when wait_for_button_press(button b) returns False:
\* reset_system (lines 217, 224), fire_rocket (line 234)
AfterTimeout(b) ==
    CASE b \in {"green", "blue"} -> [pc |-> "transfer_on", btn |-> "none", ctx |-> "reset"]
      [] b = "red" -> [pc |-> "fire_on", btn |-> "none", ctx |-> "red_abort"]

\* wait_for_button_press, line 176
wait_start ==
    /\ pc = "wait_start"
    /\ irq_now' = now
    /\ UNCHANGED written
    /\ start_time' = time_time
    /\ startReal' = now
    /\ everActive' = FALSE
    /\ wret' = "none"
    /\ pc' = "is_pressed"
    /\ probe' = <<>>
    /\ probeAt' = now
    /\ blinks' = 0
    /\ UNCHANGED <<encVars, pinVars, btn, ctx, timeout, clockVars, seqObs,
                   edgeObs, pollObs, presses,
                   fireOffAt, raceObs>>

\* is_pressed without the debounce sleep of line 53: the second sample is
\* taken at once
is_pressed_first_nosleep ==
    /\ pc = "is_pressed"
    /\ irq_now' = now
    /\ UNCHANGED written
    /\ \E v \in Levels :
         /\ probe' = <<v>>
         /\ IF v
            THEN /\ presses < MaxPresses
                 /\ presses' = presses + 1
                 /\ everActive' = TRUE
                 /\ pc' = "is_pressed_2"
                 /\ UNCHANGED now
            ELSE /\ pc' = "blink_on"
                 /\ UNCHANGED <<now, everActive, presses>>
    /\ probeAt' = now
    /\ UNCHANGED <<encVars, pinVars, btn, ctx, start_time, timeout, boot, seqObs,
                   edgeObs, pollObs, startReal, wret, blinks,
                   fireOffAt, raceObs>>

\* Button.is_pressed, lines 51-52 and 55: the first sample; an active line is
\* followed by the debounce delay, an inactive one returns False
is_pressed_first ==
    /\ pc = "is_pressed"
    /\ irq_now' = now
    /\ UNCHANGED written
    /\ \E v \in Levels :
         /\ probe' = <<v>>
         /\ IF v
            THEN /\ presses < MaxPresses
                 /\ presses' = presses + 1
                 /\ now' = now + ButtonDebounceMs * 1000
                 /\ everActive' = TRUE
                 /\ pc' = "is_pressed_2"
            ELSE /\ pc' = "blink_on"
                 /\ UNCHANGED <<now, everActive, presses>>
    /\ probeAt' = now
    /\ UNCHANGED <<encVars, pinVars, btn, ctx, start_time, timeout, boot, seqObs,
                   edgeObs, pollObs, startReal, wret, blinks,
                   fireOffAt, raceObs>>

\* is_pressed with the second sample negated: a line that is still active
\* after the debounce window counts as not pressed
is_pressed_second_inverted ==
    /\ pc = "is_pressed_2"
    /\ irq_now' = now
    /\ UNCHANGED written
    /\ \E v \in Levels :
         /\ probe' = Append(probe, v)
         /\ pc' = IF v THEN "blink_on" ELSE "wait_pressed"
    /\ UNCHANGED <<encVars, pinVars, btn, ctx, start_time, timeout, clockVars,
                   seqObs, edgeObs, pollObs, waitObs, presses, probeAt, blinks,
                   fireOffAt, raceObs>>

\* Button.is_pressed, lines 53-55: the second sample decides
is_pressed_second ==
    /\ pc = "is_pressed_2"
    /\ irq_now' = now
    /\ UNCHANGED written
    /\ \E v \in Levels :
         /\ probe' = Append(probe, v)
         /\ pc' = IF v THEN "wait_pressed" ELSE "blink_on"
    /\ UNCHANGED <<encVars, pinVars, btn, ctx, start_time, timeout, clockVars,
                   seqObs, edgeObs, pollObs, waitObs, presses, probeAt, blinks,
                   fireOffAt, raceObs>>

\* Button.blink_led, lines 59-60
blink_led_on ==
    /\ pc = "blink_on"
    /\ irq_now' = now
    /\ written' = written \cup {btn}
    /\ led' = [led EXCEPT ![btn] = TRUE]
    /\ now' = now + BlinkIntervalUs
    /\ pc' = "blink_off"
    /\ blinks' = blinks + 1
    /\ UNCHANGED <<encVars, relay, btn, ctx, start_time, timeout, boot, seqObs,
                   edgeObs, pollObs, waitObs, presses, probe, probeAt,
                   fireOffAt, raceObs>>

\* Button.blink_led, lines 61-62
blink_led_off ==
    /\ pc = "blink_off"
    /\ irq_now' = now
    /\ written' = written \cup {btn}
    /\ led' = [led EXCEPT ![btn] = FALSE]
    /\ now' = now + BlinkIntervalUs
    /\ pc' = "wait_check"
    /\ UNCHANGED <<encVars, relay, btn, ctx, start_time, timeout, boot, seqObs,
                   edgeObs, pollObs, waitObs, presses,
                   callObs, fireOffAt, raceObs>>

\* wait_for_button_press, lines 179-181: the timeout test after a blink;
\* past the timeout it returns False, otherwise the loop polls again
wait_timeout_check ==
    /\ pc = "wait_check"
    /\ irq_now' = now
    /\ UNCHANGED written
    /\ IF TimedOut(time_time, start_time, timeout)
       THEN /\ wret' = "timed_out"
            /\ IF ctx = "unit"
               THEN pc' = "ready" /\ UNCHANGED <<btn, ctx, res, mark>>
               ELSE /\ pc' = AfterTimeout(btn).pc
                    /\ btn' = AfterTimeout(btn).btn
                    /\ ctx' = AfterTimeout(btn).ctx
                    /\ res' = [res EXCEPT ![btn] = "timeout"]
                    /\ mark' = Len(trace)
       ELSE /\ pc' = "is_pressed"
            /\ UNCHANGED <<btn, ctx, res, mark, wret>>
    /\ UNCHANGED <<encVars, pinVars, start_time, timeout, clockVars, cycle, idle,
                   trace, seqEdges, edgeObs, pollObs, startReal, everActive, presses,
                   callObs, fireOffAt, raceObs>>

\* line 182 switching the LED on instead of off
wait_pressed_latch ==
    /\ pc = "wait_pressed"
    /\ irq_now' = now
    /\ written' = written \cup {btn}
    /\ led' = [led EXCEPT ![btn] = TRUE]
    /\ wret' = "confirmed"
    /\ IF ctx = "unit"
       THEN pc' = "ready" /\ UNCHANGED <<btn, ctx, res>>
       ELSE /\ pc' = AfterConfirmed(btn).pc
            /\ btn' = AfterConfirmed(btn).btn
            /\ ctx' = AfterConfirmed(btn).ctx
            /\ res' = [res EXCEPT ![btn] = "confirmed"]
    /\ UNCHANGED <<encVars, relay, start_time, timeout, clockVars, cycle, idle,
                   trace, mark, seqEdges, edgeObs, pollObs, startReal, everActive, presses,
                   callObs, fireOffAt, raceObs>>

\* wait_for_button_press, lines 182-184: the button was pressed
wait_pressed ==
    /\ pc = "wait_pressed"
    /\ irq_now' = now
    /\ written' = written \cup {btn}
    /\ led' = [led EXCEPT ![btn] = FALSE]
    /\ wret' = "confirmed"
    /\ IF ctx = "unit"
       THEN pc' = "ready" /\ UNCHANGED <<btn, ctx, res>>
       ELSE /\ pc' = AfterConfirmed(btn).pc
            /\ btn' = AfterConfirmed(btn).btn
            /\ ctx' = AfterConfirmed(btn).ctx
            /\ res' = [res EXCEPT ![btn] = "confirmed"]
    /\ UNCHANGED <<encVars, relay, start_time, timeout, clockVars, cycle, idle,
                   trace, mark, seqEdges, edgeObs, pollObs, startReal, everActive, presses,
                   callObs, fireOffAt, raceObs>>

\* ----------------------------------------------------------------------
\* The program: main (191-243)
\* ----------------------------------------------------------------------

\* lines 193-203: buttons, encoder and relays constructed; the loop starts.
\* The relays are off (line 111); the LEDs are as their pins were found.
Init ==
    /\ InitFields
    /\ led \in {[b \in Buttons |-> Button_init(pre[b])] : pre \in [Buttons -> BOOLEAN]}
    /\ pc = "poll" /\ btn = "none" /\ ctx = "main"
    /\ start_time = 0 /\ timeout = DefaultTimeout
    /\ now = 0
    /\ irq_now = 0
    /\ boot = BootTick

Next ==
    \/ Edge
    \/ is_activated_test
    \/ is_activated_reset
    \/ main_sleep
    \/ generate_fuel_on
    \/ generate_fuel_end
    \/ wait_start
    \/ is_pressed_first
    \/ is_pressed_second
    \/ blink_led_on
    \/ blink_led_off
    \/ wait_timeout_check
    \/ wait_pressed
    \/ transfer_fuel_on
    \/ transfer_fuel_off
    \/ fire_rocket_on
    \/ fire_rocket_off

Spec == Init /\ [][Next]_vars

\* the steps of the main program itself: every action of Next but the
\* arrival of an encoder edge
MainStep ==
    \/ is_activated_test
    \/ is_activated_reset
    \/ main_sleep
    \/ generate_fuel_on
    \/ generate_fuel_end
    \/ wait_start
    \/ is_pressed_first
    \/ is_pressed_second
    \/ blink_led_on
    \/ blink_led_off
    \/ wait_timeout_check
    \/ wait_pressed
    \/ transfer_fuel_on
    \/ transfer_fuel_off
    \/ fire_rocket_on
    \/ fire_rocket_off

\* an encoder edge while fewer than MaxLiveEdges have been delivered
EdgeLive == edges < MaxLiveEdges /\ Edge

NextLive == EdgeLive \/ MainStep

\* main runs on: every sleep returns and the interrupt handler returns, so
\* the main program's next step is eventually taken (time advances)
SpecLive == Init /\ [][NextLive]_vars /\ WF_vars(MainStep)

\* ----------------------------------------------------------------------
\* Unit runs of wait_for_button_press: one call, any timeout of Timeouts
\* ----------------------------------------------------------------------
InitWait ==
    /\ InitFields
    /\ led \in {[b \in Buttons |-> Button_init(pre[b])] : pre \in [Buttons -> BOOLEAN]}
    /\ pc = "wait_start" /\ btn \in Buttons /\ ctx = "unit"
    /\ start_time = 0
    /\ timeout \in Timeouts
    /\ now \in StartPhases
    /\ irq_now = now
    /\ boot = BootTick

NextWait ==
    \/ wait_start
    \/ is_pressed_first
    \/ is_pressed_second
    \/ blink_led_on
    \/ blink_led_off
    \/ wait_timeout_check
    \/ wait_pressed

SpecWait == InitWait /\ [][NextWait]_vars

\* ----------------------------------------------------------------------
\* Properties of the Encoder (checked under SpecEnc)
\* ----------------------------------------------------------------------

\* C6 as stated: pending activations are counted.  Every completed rotation
\* adds one pending activation and every is_activated() returning True takes
\* one away, so whenever no call is in progress an activation is pending
\* exactly when more rotations were completed than calls returned True.
C6_PendingCounted == pc = "ready" => (activated <=> nCompl - nTrue > 0)

\* C6 amended: the pending activation is one flag.  The flag is set only
\* when rotations were completed that no call has consumed, every completed
\* rotation leaves it set, it is cleared only by a call that returns True,
\* and such a call leaves nothing pending however many rotations were
\* completed before it.
C6_PendingIsFlag ==
    /\ [](activated => nCompl > nTrue)
    /\ [][nCompl' > nCompl => activated']_vars
    /\ [][(activated /\ ~activated') => nTrue' = nTrue + 1]_vars
    /\ [][nTrue' > nTrue => ~activated']_vars

\* two rotations completed, one call returned True and the next one False
C6_Witness == nCompl = 2 /\ nTrue = 1 /\ ret = <<TRUE, FALSE>> /\ pc = "ready"

\* C7: is_activated() consumes at most one pending activation per call.  Of
\* two consecutive calls with no edge in between the second returns False;
\* a call that finds nothing pending returns False and leaves the encoder
\* fields unchanged; a call that finds an activation pending returns True
\* and leaves none pending.
C7_PollDrainsOne ==
    /\ [](Len(ret) = 2 => ret[2] = FALSE)
    /\ [][(pc = "poll" /\ ~activated /\ pc' # "poll")
            => (UNCHANGED encVars /\ ret' # <<>> /\ ret'[Len(ret')] = FALSE)]_vars
    /\ [][(pc = "poll_reset" /\ pc' # "poll_reset")
            => (ret' # <<>> /\ ret'[Len(ret')] = TRUE /\ ~activated')]_vars

\* one activation was pending; two calls without an edge returned True, False
C7_Witness == ret = <<TRUE, FALSE>> /\ pc = "ready" /\ nCompl = 1

\* C8 as stated: from zero counters, while every delivered edge came more
\* than the debounce window after the previous accepted edge and no
\* activation has been consumed, fewer than PulsesPerRotation edges leave no
\* activation pending and the pulse counter equal to their number, and
\* exactly PulsesPerRotation edges leave one activation pending and the
\* pulse counter zero.
C8_QualifyingEdgesActivate ==
    (nTrue = 0 /\ edges = qedges) =>
        /\ qedges < PulsesPerRotation => (~activated /\ pulse_count = qedges)
        /\ qedges = PulsesPerRotation => (activated /\ pulse_count = 0)

\* the number of accepted edges among the edges of s with index in S
AccIn(s, S) == Cardinality({i \in S : s[i].acc})

\* C9 as stated: of N >= 1 edges each within less than the debounce window
\* of the others, fewer than N are registered as pulses.
C9_FewerThanN ==
    \A S \in SUBSET (1 .. Len(recent)) :
        S # {} => AccIn(recent, S) < Cardinality(S)

\* C9 amended: of N edges each within less than the debounce window of the
\* others at most one is registered as a pulse, which is fewer than N for
\* every N >= 2.
C9_AtMostOne ==
    \A S \in SUBSET (1 .. Len(recent)) :
        /\ AccIn(recent, S) <= 1
        /\ Cardinality(S) >= 2 => AccIn(recent, S) < Cardinality(S)

\* three edges inside one debounce window, one of them registered
C9_Witness ==
    /\ Len(recent) = 3
    /\ AccIn(recent, 1 .. 3) = 1

\* ----------------------------------------------------------------------
\* Properties of the sequencer (checked under Spec)
\* ----------------------------------------------------------------------

AllConfirmed == \A b \in Buttons : res[b] = "confirmed"

\* the relays of the turn_on calls of actuator trace s, in order
RECURSIVE Activations(_)
Activations(s) ==
    IF s = <<>> THEN <<>>
    ELSE IF Head(s)[2] = "on" THEN <<Head(s)[1]>> \o Activations(Tail(s))
         ELSE Activations(Tail(s))

\* the number of turn_on calls on relay r in actuator trace s
OnCount(s, r) == Cardinality({i \in 1 .. Len(s) : s[i] = <<r, "on">>})

\* the actuator calls of the cycle made after its confirmation timed out
AfterMark == SubSeq(trace, mark + 1, Len(trace))

\* C1 as stated: the ignition relay is on only in the firing step entered
\* after green, blue and red were all confirmed in the cycle.
C1_FireOnlyConfirmed == relay["fire"] => (pc = "fire_off" /\ AllConfirmed)

\* C1 amended: the ignition relay is on only inside fire_rocket, which is
\* entered after all three confirmations, or from reset_system once the
\* transfer purge is over when green or blue timed out, or directly when red
\* timed out; every cycle, whatever its confirmations returned, has activated
\* the ignition relay exactly once when main is back in its polling loop.
C1_FireOnEveryPath ==
    /\ relay["fire"] =>
         /\ pc = "fire_off"
         /\ \/ ctx = "main" /\ AllConfirmed
            \/ /\ ctx = "reset"
               /\ \E b \in {"green", "blue"} : res[b] = "timeout"
               /\ res["red"] = "none"
               /\ AfterMark = <<<<"transfer", "on">>, <<"transfer", "off">>, <<"fire", "on">>>>
            \/ /\ ctx = "red_abort"
               /\ res = [b \in Buttons |-> IF b = "red" THEN "timeout" ELSE "confirmed"]
               /\ AfterMark = <<<<"fire", "on">>>>
    /\ (InIdle /\ cycle > 0) => OnCount(trace, "fire") = 1

\* the ignition relay is on after the red confirmation timed out
C1_Witness == relay["fire"] /\ res["red"] = "timeout"

\* C2 as stated: a cycle in which green, blue and red were confirmed (the
\* first or a later one) has, when main is back in its polling loop,
\* activated the fuel-generation, transfer and ignition relays once each,
\* in that order.
C2_OneActivationEach ==
    (InIdle /\ cycle > 0 /\ AllConfirmed)
        => Activations(trace) = <<"bubble", "transfer", "fire">>

\* C3 as stated: when main re-enters its polling loop after green was
\* confirmed and blue timed out, the actuator calls since the timeout are one
\* transfer on/off pair, the three LEDs are off and no activation is pending.
C3_PurgeOnly ==
    [][(~InIdle /\ InIdle' /\ res'["green"] = "confirmed" /\ res'["blue"] = "timeout")
        => /\ AfterMark' = <<<<"transfer", "on">>, <<"transfer", "off">>>>
           /\ \A b \in Buttons : ~led'[b]
           /\ ~activated']_vars

\* C3 amended: when main re-enters its polling loop after green was confirmed
\* and blue timed out, the actuator calls since the timeout are one transfer
\* on/off pair followed by one ignition on/off pair; the green and the blue
\* LED are off, as is every LED that has been written since construction
\* (the red LED, not written in this cycle, is as an earlier cycle or the
\* construction left it); the encoder was never detached, so an activation
\* is pending exactly when the edges delivered since the cycle's start
\* completed a rotation.
C3_PurgeThenFire ==
    [][(~InIdle /\ InIdle' /\ res'["green"] = "confirmed" /\ res'["blue"] = "timeout")
        => /\ AfterMark' = <<<<"transfer", "on">>, <<"transfer", "off">>,
                             <<"fire", "on">>, <<"fire", "off">>>>
           /\ {"green", "blue"} \subseteq written'
           /\ \A b \in written' : ~led'[b]
           /\ activated' <=> seqCompl' > 0]_vars

\* back in the polling loop after a blue timeout, with an activation pending
\* from edges delivered during the cycle, the green and blue LEDs off and the
\* red LED on as its pin was found at construction
C3_Witness ==
    /\ pc = "poll" /\ idle = 0 /\ cycle = 1
    /\ res["green"] = "confirmed" /\ res["blue"] = "timeout"
    /\ seqEdges = 2 /\ edges = 4
    /\ activated /\ seqCompl = 1
    /\ ~led["green"] /\ ~led["blue"] /\ led["red"] /\ written = {"green", "blue"}

\* C4 as stated: outside the hold of generate_fuel the fuel-generation relay
\* is off (while waiting for green, in the rest of the cycle and in the
\* polling loop afterwards).
C4_FuelGenOff == relay["bubble"] => pc = "gen_off"

\* C5 as stated: edges delivered while a sequence is running leave the
\* encoder fields unchanged, and at every re-entry of the polling loop the
\* pulse counter is zero and no activation is pending.
C5_EdgesIgnored ==
    /\ [][(edges' = edges + 1 /\ Running) => UNCHANGED encVars]_vars
    /\ [][(~InIdle /\ InIdle') => (pulse_count' = 0 /\ ~activated')]_vars

\* C5 amended: edges delivered while a sequence is running are handled like
\* edges delivered in the polling loop, because the handler is never detached
\* and main never resets the counters: the pulse counter always is the number
\* of edges that passed the handler's debounce test modulo PulsesPerRotation,
\* the pending flag is cleared only by is_activated, and at re-entry of the
\* polling loop an activation is pending exactly when the edges delivered
\* since the cycle's start completed a rotation, so a new cycle can start
\* from edges delivered before the re-entry.
C5_EdgesCounted ==
    /\ [](pulse_count = accCount % PulsesPerRotation)
    /\ [][(activated /\ ~activated') => pc = "poll_reset"]_vars
    /\ [][(~InIdle /\ InIdle') => (activated' <=> seqCompl' > 0)]_vars

\* back in the polling loop after a fully confirmed first cycle, with an
\* activation pending from two edges delivered while the cycle was running
C5_Witness ==
    /\ pc = "idle_sleep" /\ cycle = 1 /\ AllConfirmed
    /\ seqEdges = 2 /\ edges = 4
    /\ activated /\ pulse_count = 0

\* ----------------------------------------------------------------------
\* Properties of wait_for_button_press (checked under SpecWait)
\* ----------------------------------------------------------------------

\* C10: a call whose button line was never active returns False (timed out),
\* no earlier than timeout seconds and no later than timeout seconds plus one
\* blink cycle (two blink intervals) after it started.
C10_TimeoutWindow ==
    (pc = "ready" /\ ~everActive) =>
        /\ wret = "timed_out"
        /\ now - startReal >= timeout * UsPerSec
        /\ now - startReal <= timeout * UsPerSec + 2 * BlinkIntervalUs

\* a call with a timeout of two seconds has timed out on a silent line
C10_Witness == pc = "ready" /\ ~everActive /\ wret = "timed_out" /\ timeout = 2

\* C11: a call of wait_for_button_press whose first poll reads the line active
\* and reads it active again one debounce window later returns True
\* (confirmed) from that first poll: the loop body never runs, so the LED was
\* never blinked; it is not written before line 182 switches it off for the
\* return, and the call took exactly one debounce window.
C11_FirstPollConfirms ==
    (blinks = 0 /\ probe = <<TRUE, TRUE>>) =>
        /\ pc \in {"wait_pressed", "ready"}
        /\ pc = "wait_pressed" => written = {}
        /\ now - startReal = ButtonDebounceMs * 1000
        /\ pc = "ready" => (wret = "confirmed" /\ written = {btn} /\ ~led[btn])

\* a call has returned True from its first poll, its LED switched off
C11_Witness ==
    /\ pc = "ready" /\ wret = "confirmed" /\ ~led[btn] /\ written = {btn}
    /\ blinks = 0 /\ probe = <<TRUE, TRUE>>
    /\ now - startReal = ButtonDebounceMs * 1000

\* ----------------------------------------------------------------------
\* Indicators and stage order of the launch sequence (checked under Spec)
\* ----------------------------------------------------------------------

\* C12 as stated: once a wait has returned confirmed, the LED of its button
\* is on, and stays on while the cycle runs unaborted and has not yet fired.
C12_LatchedOn ==
    \A b \in Buttons :
        ( /\ res[b] = "confirmed"
          /\ ~InIdle
          /\ \A c \in Buttons : res[c] # "timeout"
          /\ OnCount(trace, "fire") = 0 ) => led[b]

\* C12: when wait_for_button_press returns True the LED of its button is off
\* (line 182 switches it off before the return), and it stays off: an LED
\* that has been written since construction is on only during the on-half of
\* a blink of the wait that is polling its own button.
C12_IndicatorOff ==
    /\ \A b \in Buttons : res[b] = "confirmed" => (b \in written /\ ~led[b])
    /\ \A b \in written : led[b] => (btn = b /\ pc = "blink_off")

\* green has been confirmed and its LED is off while the blue LED blinks
\* and the red LED, not written yet, is on as its pin was found
C12_Witness ==
    /\ res["green"] = "confirmed" /\ ~led["green"]
    /\ btn = "blue" /\ pc = "blink_off" /\ led["blue"]
    /\ led["red"] /\ written = {"green", "blue"}

\* C13 as stated, for any cooldown longer than nothing: a new cycle starts
\* (the flag is found set by the poll of line 207) only later than the
\* instant at which the ignition valve was switched off.
C13_CooldownBeforeRearm ==
    (pc = "poll_reset" /\ ctx = "main" /\ cycle >= 1) => now > fireOffAt

\* C13: there is no cooldown.  After the ignition valve is switched off main
\* polls the encoder again at that very instant on the abort paths and one
\* polling delay (0.1 s) later after a fully confirmed cycle, then every
\* polling delay; the handler stays registered, so an activation completed
\* during the cycle starts the next cycle at that first poll.
C13_NoCooldown ==
    /\ (InIdle /\ ctx = "main") => now = fireOffAt + idle * LoopDelayUs
    /\ (pc \in {"poll", "poll_reset"} /\ idle = 0 /\ cycle >= 1) => ~AllConfirmed

\* the second cycle is about to start one polling delay after the ignition
\* valve of a fully confirmed first cycle was switched off
C13_Witness ==
    /\ pc = "poll_reset" /\ ctx = "main" /\ cycle = 1 /\ AllConfirmed
    /\ now = fireOffAt + LoopDelayUs /\ fireOffAt > 0

\* C14: every relay is off once its constructor has run, whatever level its
\* pin had before: until the first cycle starts main is in its polling loop
\* with all three relays off.
C14_ActuatorsOffAtStart ==
    (ctx = "main" /\ cycle = 0) => (InIdle /\ \A r \in Relays : ~relay[r])

\* main has polled the encoder once since construction, one edge has been
\* delivered, and the relays are off
C14_Witness ==
    /\ ctx = "main" /\ cycle = 0 /\ pc = "poll" /\ idle = 1 /\ edges = 1
    /\ \A r \in Relays : ~relay[r]

\* ----------------------------------------------------------------------
\* Preemption of is_activated by the interrupt handler (checked under SpecEnc)
\* ----------------------------------------------------------------------

\* Encoder.is_activated run without interruption on encoder fields f: the
\* value returned and the fields afterwards (lines 95-98)
is_activated(f) ==
    [ret |-> f.activated, fields |-> [f EXCEPT !.activated = FALSE]]

\* the handler run on fields f once per tick reading of ts, in order
RECURSIVE ApplyEdges(_, _)
ApplyEdges(f, ts) ==
    IF ts = <<>>
    THEN f
    ELSE ApplyEdges(irq_handler(f.pulse_count, f.activated,
                                f.last_trigger_time, Head(ts)),
                    Tail(ts))

\* the two serial orders of one call and the edges that preempted it
EdgeThenPoll == is_activated(ApplyEdges(snap, mid))

PollThenEdge ==
    LET r == is_activated(snap)
    IN [ret |-> r.ret, fields |-> ApplyEdges(r.fields, mid)]

\* what the preempted call returned and left behind
Outcome ==
    [ret |-> ret[Len(ret)],
     fields |-> [pulse_count |-> pulse_count, activated |-> activated,
                 last_trigger_time |-> last_trigger_time]]

\* C15: when the handler preempts is_activated between its test of the flag
\* and its reset, the value returned and the encoder fields left behind are
\* those of one of the two serial orders: the edges first and then the call,
\* or the call first and then the edges.
C15_Serializable ==
    (pc = "ready" /\ mid # <<>>) =>
        /\ ret # <<>>
        /\ Outcome \in {EdgeThenPoll, PollThenEdge}

\* a call has returned True after an edge that completed a second rotation
\* preempted it between its test and its reset
C15_Witness ==
    /\ pc = "ready" /\ Len(mid) = 1 /\ ret = <<TRUE>>
    /\ nCompl = 2 /\ nTrue = 1 /\ ~activated

\* C16 as stated: once an edge has been accepted, the handler accepts an
\* edge (counts it, completing a
\* rotation when the count reaches PulsesPerRotation, and stamps it with the
\* current tick reading) exactly when the real time elapsed since the last
\* accepted edge exceeds the debounce window, and otherwise leaves the pulse
\* counter, the flag and the stamp unchanged, whatever the wrapping tick
\* counter reads.
C16_AcceptsIffElapsed ==
    [][(edges' = edges + 1 /\ lastAccReal > 0) =>
          IF (realAt(irq_now') - lastAccReal) > EncoderDebounceUs
          THEN /\ last_trigger_time' = ticks_us(irq_now')
               /\ \/ pulse_count' = pulse_count + 1 /\ activated' = activated
                  \/ pulse_count' = 0 /\ activated'
          ELSE UNCHANGED encVars]_vars

\* ----------------------------------------------------------------------
\* Button.is_pressed (checked under SpecWait)
\* ----------------------------------------------------------------------

\* C17: is_pressed is a two-sample debounce.  It returns False at once when
\* its first sample is inactive; when the first sample is active it sleeps
\* exactly one debounce window, samples once more, and returns True exactly
\* when that second sample is active; it writes no LED, no relay and no
\* field of the wait or of the encoder.
C17_TwoSampleDebounce ==
    /\ [](pc = "is_pressed_2" =>
             (probe = <<TRUE>> /\ now = probeAt + ButtonDebounceMs * 1000))
    /\ [](pc = "blink_on" =>
             ( \/ (probe = <<FALSE>> /\ now = probeAt)
               \/ (probe = <<TRUE, FALSE>>
                     /\ now = probeAt + ButtonDebounceMs * 1000) ))
    /\ [](pc = "wait_pressed" =>
             (probe = <<TRUE, TRUE>> /\ now = probeAt + ButtonDebounceMs * 1000))
    /\ [][(pc \in {"is_pressed", "is_pressed_2"}) =>
             UNCHANGED <<led, relay, encVars, start_time, timeout, btn>>]_vars

\* is_pressed has returned False on a line that was active at the first
\* sample and inactive one debounce window later
C17_Witness ==
    /\ pc = "blink_on" /\ probe = <<TRUE, FALSE>>
    /\ now = probeAt + ButtonDebounceMs * 1000

\* ----------------------------------------------------------------------
\* Stage order and relay states of the launch sequence (checked under Spec)
\* ----------------------------------------------------------------------

\* main is inside wait_for_button_press
InWait == pc \in WaitLoopPcs \cup {"wait_start", "wait_pressed"}

\* C18: the stages run in order on every path.  The blue wait runs only
\* after the green wait returned True; the red wait runs only after green
\* and blue returned True and the transfer hold has ended with the valve
\* off; the transfer valve is on only during a transfer hold that follows
\* either both confirmations in this cycle (line 228) or, as the purge of
\* reset_system, a timeout of the green or of the blue wait; it is never
\* switched on after a timeout of the red wait nor in the polling loop.
C18_StageOrder ==
    /\ (InWait /\ btn = "blue") => res["green"] = "confirmed"
    /\ (InWait /\ btn = "red") =>
           /\ res["green"] = "confirmed" /\ res["blue"] = "confirmed"
           /\ trace # <<>> /\ trace[Len(trace)] = <<"transfer", "off">>
           /\ ~relay["transfer"]
    /\ relay["transfer"] =>
           /\ pc = "transfer_off" /\ res["red"] = "none"
           /\ \/ ctx = "main" /\ res["green"] = "confirmed"
                               /\ res["blue"] = "confirmed"
              \/ ctx = "reset" /\ res["green"] = "timeout"
                                /\ res["blue"] = "none"
              \/ ctx = "reset" /\ res["green"] = "confirmed"
                                /\ res["blue"] = "timeout"
    /\ res["red"] = "timeout" => OnCount(AfterMark, "transfer") = 0
    /\ InIdle => ~relay["transfer"]

\* the transfer valve is on as the purge that follows a timeout of the blue
\* wait
C18_Witness ==
    /\ relay["transfer"] /\ ctx = "reset"
    /\ res["green"] = "confirmed" /\ res["blue"] = "timeout"

\* ----------------------------------------------------------------------
\* Termination of a sequence (checked under SpecLive)
\* ----------------------------------------------------------------------

\* C19: every started sequence ends: from every state in which main is not
\* in its polling loop it reaches the poll of the encoder flag (line 207)
\* again, whatever the buttons and the encoder do.
C19_ReturnsToIdle == (~InIdle) ~> (pc = "poll")

\* a cycle that started and is back at the poll of the encoder flag
C19_Witness == pc = "poll" /\ cycle = 1 /\ trace # <<>>

\* C20 as stated: at most one of the three relays is on in any reachable
\* state, and all three are off whenever main is in its polling loop.
C20_OneActuatorAtATime ==
    /\ Cardinality({r \in Relays : relay[r]}) <= 1
    /\ InIdle => \A r \in Relays : ~relay[r]

=============================================================================
